---- MODULE Spec2Model ----
(***************************************************************************)
(* Model of package network (src/network/listener.go): the sniffing        *)
(* buffer of a sniffed connection, the multiplexing Listener with its      *)
(* accept loop and per-connection tasks, and the muxListener facade.       *)
(*                                                                         *)
(* Three specifications share the module:                                  *)
(*   SnifferSpec  - sniffer.Read / sniffer.reset behind Conn               *)
(*   Spec         - Listener.Serve, serve, handleErr, Close, HandleError,  *)
(*                  ServeAsync (FairSpec adds goroutine scheduling)        *)
(*   FacadeSpec   - muxListener.Accept on its connections channel          *)
(***************************************************************************)
EXTENDS Integers, Sequences, FiniteSets, TLC

(* ------------------------------ bounds -------------------------------- *)
\* bytes the upstream source can deliver in total
MaxSrc == 3
\* largest len(p) handed to Read
MaxReq == 2
\* reads recorded per sniffing session and per replay
MaxReads == 2

(* ------------------------------ sniffer ------------------------------- *)
VARIABLES
    srcPos,      \* bytes delivered so far by sniffer.source; byte i has value i
    buffer,      \* sniffer.buffer contents (bytes.Buffer, never consumed: off = 0)
    bufferCap,   \* sniffer.buffer.Cap() != 0
    bufferRead,  \* sniffer.bufferRead
    bufferSize,  \* sniffer.bufferSize
    sniffing,    \* sniffer.sniffing
    lastErr,     \* sniffer.lastErr
    \* observation of the calls made on the sniffer (not program state)
    phase,       \* "idle", "sniff" (after reset(true)), "replay" (reset(false) after a sniff)
    sniffLog,    \* results of the Reads of the current/last sniffing session
    replayLog,   \* results of the Reads since the reset(false) that ended it
    atStart,     \* sniffer fields just before the last reset(true)
    startLen,    \* buffer.Len() at the last reset(true)
    atDone,      \* sniffer fields just after the last reset(false)
    seen,        \* highest byte returned so far by a Read made while not sniffing
    seenAtDone,  \* seen at the last reset(false)
    ret          \* the last call: what a Read returned and got from upstream

snifVars == <<srcPos, buffer, bufferCap, bufferRead, bufferSize, sniffing,
              lastErr, phase, sniffLog, replayLog, atStart, startLen, atDone,
              seen, seenAtDone, ret>>

(* ------------------------------ listener ------------------------------ *)
VARIABLES
    rootClosed,  \* m.root (the bound net.Listener) has been closed
    closing,     \* m.closing: "open" or "closed"
    crashed,     \* a goroutine panicked (close of a closed channel)
    policy,      \* m.errorHandler: "default" (New) or "custom" (HandleError)
    servePc,     \* per invocation of Serve: position in Serve
    serveErr,    \* err of the accept call being handled
    serveConn,   \* c of the accept call whose task is being spawned
    serveRet,    \* value of the return statement of Serve
    wg,          \* the sync.WaitGroup counter of the invocation
    tasks,       \* per accepted connection: the goroutine running m.serve
    nextConn,    \* connections accepted so far on m.root
    facades,     \* per ServeAsync call: the muxListener and its server goroutine
    \* observation (not program state)
    handled,     \* last handleErr call of Serve: the error and the policy's answer
    closeAt      \* where Serve was at the first Close() call

lisVars == <<rootClosed, closing, crashed, policy, servePc, serveErr, serveConn,
             serveRet, wg, tasks, nextConn, facades, handled, closeAt>>

vars == <<snifVars, lisVars>>

\* error values an io.Reader hands back with a Read: nil or a non-nil error
ReadErrs == {"nil", "ErrTimeout"}

Min(a, b) == IF a < b THEN a ELSE b

\* the results (sn, sErr) s.source.Read(p) can give for len(p) = n > 0: some
\* bytes with or without an error, or no byte and an error (io.Reader)
SourceResults(n) ==
    {r \in (0..Min(n, MaxSrc - srcPos)) \X ReadErrs : r[1] > 0 \/ r[2] # "nil"}

\* the bytes srcPos+1 .. srcPos+sn of the upstream stream
SourceBytes(from, sn) == [i \in 1..sn |-> from + i]

\* the sniffer's fields as one value
SnifferState ==
    [buffer |-> buffer, bufferCap |-> bufferCap, bufferRead |-> bufferRead,
     bufferSize |-> bufferSize, sniffing |-> sniffing, lastErr |-> lastErr]

\* zero value of the struct built by newConn
SnifferZero ==
    [buffer |-> <<>>, bufferCap |-> FALSE, bufferRead |-> 0,
     bufferSize |-> 0, sniffing |-> FALSE, lastErr |-> "nil"]

CopyFromBuffer_all(n) == SubSeq(buffer, bufferRead + 1, bufferSize)

\* copy(p, s.buffer.Bytes()[s.bufferRead:s.bufferSize]) for len(p) = n
CopyFromBuffer(n) ==
    SubSeq(buffer, bufferRead + 1, bufferRead + Min(n, bufferSize - bufferRead))

BufferedErr_nil == "nil"

\* the error returned with bytes served from the buffer
BufferedErr == lastErr

ReleasedBuffer_always == IF bufferCap THEN <<>> ELSE buffer

\* the buffer after the "else if" of Read: released once replay is over
ReleasedBuffer ==
    IF ~sniffing /\ bufferCap THEN <<>> ELSE buffer

ReleasedCap ==
    IF ~sniffing /\ bufferCap THEN FALSE ELSE bufferCap

Mirrors_empty(sn) == sniffing

Mirrors_always(sn) == sn > 0

\* whether the bytes of an upstream read are written to the buffer
Mirrors(sn) == sn > 0 /\ sniffing

ResetSize_stale == bufferSize

\* bufferSize as computed by reset
ResetSize == Len(buffer)

ResetRead_keep == bufferRead

\* bufferRead as computed by reset
ResetRead == 0

\* ret after a call that is no Read
NoRead == [req |-> 0, data |-> <<>>, err |-> "nil", up |-> FALSE, srcErr |-> "none"]

\* the observation kept of a Read; atStart is kept only as long as the session
\* that followed it has returned no byte
LogRead(entry) ==
    /\ ret' = entry
    /\ sniffLog' = IF phase = "sniff" THEN Append(sniffLog, entry) ELSE sniffLog
    /\ replayLog' = IF phase = "replay" THEN Append(replayLog, entry) ELSE replayLog
    /\ atStart' = IF phase = "sniff" /\ entry.data = <<>> THEN atStart ELSE SnifferZero
    /\ seen' = IF ~sniffing /\ entry.data # <<>> /\ entry.data[Len(entry.data)] > seen
               THEN entry.data[Len(entry.data)] ELSE seen

LogFull ==
    \/ phase = "sniff" /\ Len(sniffLog) >= MaxReads
    \/ phase = "replay" /\ Len(replayLog) >= MaxReads

\* sniffer.Read served from the buffer (bufferSize > bufferRead)
ReadBuffered(n) ==
    /\ bufferSize > bufferRead
    /\ ~LogFull
    /\ LET data == CopyFromBuffer(n) IN
        /\ bufferRead' = bufferRead + Len(data)
        /\ LogRead([req |-> n, data |-> data, err |-> BufferedErr, up |-> FALSE,
                    srcErr |-> "none"])
    /\ UNCHANGED <<srcPos, buffer, bufferCap, bufferSize, sniffing, lastErr,
                   phase, startLen, atDone, seenAtDone>>

LiveErr_last(sErr) == lastErr

\* the error returned with the result of s.source.Read
LiveErr(sErr) == sErr

\* sniffer.Read served by s.source.Read(p), which returns (sn, sErr)
ReadSource(n) ==
    /\ ~(bufferSize > bufferRead)
    /\ ~LogFull
    /\ \E r \in SourceResults(n) :
        LET sn == r[1]
            sErr == r[2]
            data == SourceBytes(srcPos, sn)
        IN
        /\ srcPos' = srcPos + sn
        /\ IF Mirrors(sn)
           THEN /\ lastErr' = sErr
                /\ buffer' = ReleasedBuffer \o data
                /\ bufferCap' = TRUE
           ELSE /\ lastErr' = lastErr
                /\ buffer' = ReleasedBuffer
                /\ bufferCap' = ReleasedCap
        /\ LogRead([req |-> n, data |-> data, err |-> LiveErr(sErr), up |-> TRUE,
                    srcErr |-> sErr])
    /\ UNCHANGED <<bufferRead, bufferSize, sniffing, phase, startLen, atDone,
                   seenAtDone>>

\* Conn.Read -> sniffer.Read with len(p) = n
Read(n) == ReadBuffered(n) \/ ReadSource(n)

\* sniffer.reset(snif)
reset(snif) ==
    /\ sniffing' = snif
    /\ bufferRead' = ResetRead
    /\ bufferSize' = ResetSize
    /\ UNCHANGED <<srcPos, buffer, bufferCap, lastErr>>

\* Conn.startSniffing
startSniffing ==
    /\ reset(TRUE)
    /\ phase' = "sniff"
    /\ atStart' = SnifferState
    /\ startLen' = Len(buffer)
    /\ sniffLog' = <<>>
    /\ replayLog' = <<>>
    /\ atDone' = SnifferZero
    /\ seenAtDone' = 0
    /\ ret' = NoRead
    /\ UNCHANGED <<seen, lisVars>>

\* Conn.doneSniffing
doneSniffing ==
    /\ reset(FALSE)
    /\ phase' = IF phase = "sniff" THEN "replay" ELSE "idle"
    /\ atDone' = IF phase = "sniff"
                  THEN [buffer |-> buffer', bufferCap |-> bufferCap',
                        bufferRead |-> bufferRead', bufferSize |-> bufferSize',
                        sniffing |-> sniffing', lastErr |-> lastErr']
                  ELSE SnifferZero
    /\ atStart' = IF phase = "sniff" THEN atStart ELSE SnifferZero
    /\ startLen' = IF phase = "sniff" THEN startLen ELSE 0
    /\ sniffLog' = IF phase = "sniff" THEN sniffLog ELSE <<>>
    /\ replayLog' = <<>>
    /\ seenAtDone' = IF phase = "sniff" THEN seen ELSE 0
    /\ ret' = NoRead
    /\ UNCHANGED <<seen, lisVars>>

ConnRead ==
    /\ \E n \in 1..MaxReq : Read(n)
    /\ UNCHANGED lisVars

SnifferInit ==
    /\ srcPos = 0
    /\ buffer = SnifferZero.buffer
    /\ bufferCap = SnifferZero.bufferCap
    /\ bufferRead = SnifferZero.bufferRead
    /\ bufferSize = SnifferZero.bufferSize
    /\ sniffing = SnifferZero.sniffing
    /\ lastErr = SnifferZero.lastErr
    /\ phase = "idle"
    /\ sniffLog = <<>>
    /\ replayLog = <<>>
    /\ atStart = SnifferZero
    /\ startLen = 0
    /\ atDone = SnifferZero
    /\ seen = 0
    /\ seenAtDone = 0
    /\ ret = NoRead


(* ------------------------- sniffer: properties ------------------------ *)
RECURSIVE Concat(_)
\* the bytes returned by the reads of a log, in order
Concat(log) ==
    IF log = <<>> THEN <<>> ELSE Concat(SubSeq(log, 1, Len(log) - 1)) \o log[Len(log)].data

RECURSIVE LiveBytes(_)
\* the bytes of a log that its reads pulled from the upstream source
LiveBytes(log) ==
    IF log = <<>> THEN <<>>
    ELSE LiveBytes(SubSeq(log, 1, Len(log) - 1))
         \o (IF log[Len(log)].up THEN log[Len(log)].data ELSE <<>>)

Take(q, n) == SubSeq(q, 1, Min(n, Len(q)))

IsPrefix(a, b) == Len(a) <= Len(b) /\ SubSeq(b, 1, Len(a)) = a

\* bytes returned by the reads of a log before its i-th read
Before(log, i) == Len(Concat(SubSeq(log, 1, i - 1)))

\* the buffered bytes the next reads return before any upstream read
Pending(st) ==
    IF st.bufferSize > st.bufferRead
    THEN SubSeq(st.buffer, st.bufferRead + 1, st.bufferSize)
    ELSE <<>>

\* what later Reads and resets can observe of the sniffer
Observable(st) ==
    [buffer |-> st.buffer, bufferCap |-> st.bufferCap, sniffing |-> st.sniffing,
     lastErr |-> st.lastErr, pending |-> Pending(st)]

\* sniffing reads that pulled bytes from upstream
Mirrored(log) == {i \in 1..Len(log) : log[i].up /\ log[i].data # <<>>}

\* the greatest element of a non-empty set of numbers
Last(S) == CHOOSE i \in S : \A j \in S : j <= i

\* C1 as stated: after reset(true), reads, reset(false) and the same reads again,
\* every read of the second sequence that starts within the sniffed bytes
\* returns the bytes and the error of the corresponding read of the first.
C1_ReadForRead ==
    phase = "replay" =>
        \A i \in 1..Min(Len(sniffLog), Len(replayLog)) :
            /\ \A j \in 1..i : replayLog[j].req = sniffLog[j].req
            /\ Before(replayLog, i) < Len(Concat(sniffLog))
            => /\ replayLog[i].data = sniffLog[i].data
               /\ replayLog[i].err = sniffLog[i].err

\* C1 amended: the replay reproduces the sniffed bytes as a stream (not read
\* for read): a read served while buffered bytes remain returns min(requested,
\* remaining) of them, in order, without touching upstream, and with the one
\* error recorded last during sniffing (that of the last sniffing read that
\* pulled bytes from upstream); reads after that are served by upstream only.
C1_ReplayStream ==
    phase = "replay" =>
        LET S == Concat(sniffLog)
            R == Concat(replayLog)
            B == atDone.buffer
            k == Min(Len(S), Len(R))
        IN  /\ Take(R, k) = Take(S, k)
            /\ Mirrored(sniffLog) # {} =>
                    atDone.lastErr = sniffLog[Last(Mirrored(sniffLog))].err
            /\ \A i \in 1..Len(replayLog) :
                LET e == replayLog[i]
                    b == Before(replayLog, i)
                IN  IF b < Len(B)
                    THEN /\ ~e.up
                         /\ e.data = SubSeq(B, b + 1, b + Min(e.req, Len(B) - b))
                         /\ e.err = atDone.lastErr
                    ELSE e.up

\* C1 witness: a replay that returned a sniffed short read's bytes in one read,
\* with an error the first sniffing read did not return, then went live
C1_Witness ==
    /\ phase = "replay"
    /\ Len(sniffLog) >= 2 /\ Len(replayLog) >= 2
    /\ sniffLog[1].err = "nil" /\ sniffLog[1].data # <<>>
    /\ replayLog[1].data = Concat(sniffLog)
    /\ replayLog[1].err = "ErrTimeout"
    /\ replayLog[2].up /\ replayLog[2].data # <<>>

\* C2 as stated: the reads after doneSniffing return the N sniffed bytes in
\* order, and after them only bytes that are new to the connection's reader
\* (bytes no earlier Read outside sniffing has returned).
C2_SniffedThenLive ==
    phase = "replay" =>
        LET S == Concat(sniffLog)
            R == Concat(replayLog)
            k == Min(Len(S), Len(R))
        IN  /\ Take(R, k) = Take(S, k)
            /\ \A j \in (Len(S) + 1)..Len(R) : R[j] > seenAtDone

\* C2 amended: the reads after doneSniffing return the whole buffer as it is
\* at doneSniffing, in order, and then the bytes upstream delivers next; the N
\* sniffed bytes are the first N bytes of that buffer, and they are all of it
\* when the buffer was empty at startSniffing; no upstream read happens before
\* the buffer has been returned completely.
C2_BufferedThenLive ==
    phase = "replay" =>
        LET S == Concat(sniffLog)
            R == Concat(replayLog)
            B == atDone.buffer
        IN  /\ IsPrefix(S, B)
            /\ startLen = 0 => S = B
            /\ R = Take(B \o LiveBytes(replayLog), Len(R))
            /\ \A i \in 1..Len(replayLog) :
                    replayLog[i].up => Before(replayLog, i) >= Len(B)

\* C2 witness: two bytes sniffed in two reads, replayed, then a live byte
C2_Witness ==
    /\ phase = "replay"
    /\ Len(sniffLog) = 2
    /\ Len(Concat(sniffLog)) = 2
    /\ Len(replayLog) = 2
    /\ ~replayLog[1].up /\ replayLog[2].up
    /\ Concat(replayLog) = Concat(sniffLog) \o replayLog[2].data
    /\ replayLog[2].data # <<>>

\* the state right after a startSniffing .. doneSniffing pair between which
\* no read returned a byte, startSniffing having been called while not sniffing
C3_Case ==
    /\ phase = "replay"
    /\ replayLog = <<>>
    /\ Concat(sniffLog) = <<>>
    /\ ~atStart.sniffing

\* C3 as stated: from any reachable state the pair is a no-op: the next reads
\* return what they would have returned without it.
C3_NoOpAnywhere ==
    C3_Case => Pending(SnifferState) = Pending(atStart)

\* C3 amended: the pair changes nothing later calls can observe except that it
\* rewinds the replay to the first byte of the internal buffer; it is a no-op
\* when that buffer is empty at startSniffing (a connection never sniffed, or
\* whose replay was drained and released).
C3_NoOpOnEmptyBuffer ==
    C3_Case =>
        /\ Observable(SnifferState) =
                [Observable(atStart) EXCEPT !.pending = atStart.buffer]
        /\ atStart.buffer = <<>> => Observable(SnifferState) = Observable(atStart)

\* C3 witness: the pair, with a read that returned no byte in between, on a
\* connection that has delivered bytes before
C3_Witness ==
    /\ C3_Case
    /\ atStart.buffer = <<>>
    /\ Len(sniffLog) >= 1
    /\ srcPos > 0

\* C11 as stated, read so that resets nested in a sniffing run do not count:
\* the bytes a reset(false) makes the following reads replay end with the
\* bytes pulled from upstream since the matching reset(true), and none of them
\* was delivered before by a Read made outside sniffing (an earlier replay).
C11_ReplaysSessionBytes ==
    phase = "replay" =>
        LET L == LiveBytes(sniffLog)
            B == Pending(atDone)
        IN  /\ Len(L) <= Len(B)
            /\ SubSeq(B, Len(B) - Len(L) + 1, Len(B)) = L
            /\ \A i \in 1..Len(B) : B[i] > seenAtDone

\* C11 amended: a reset(false) makes the following reads replay the whole
\* internal buffer: the bytes it held at the matching reset(true) (they may
\* have been delivered by an earlier replay) followed by the bytes pulled from
\* upstream since; these are exactly the bytes pulled since the reset(true)
\* when the buffer was empty at that reset(true).
C11_ReplaysWholeBuffer ==
    phase = "replay" =>
        LET L == LiveBytes(sniffLog)
            B == atDone.buffer
        IN  /\ Pending(atDone) = B
            /\ Len(B) = startLen + Len(L)
            /\ SubSeq(B, startLen + 1, Len(B)) = L
            /\ startLen = 0 => Pending(atDone) = L

\* C11 witness: sniff, done, drain the replay, sniff again pulling a new byte,
\* done: the second replay starts with the byte the first one delivered
C11_Witness ==
    /\ phase = "replay"
    /\ startLen > 0
    /\ LiveBytes(sniffLog) # <<>>
    /\ seenAtDone >= atDone.buffer[1]
    /\ replayLog # <<>>
    /\ replayLog[1].data # <<>>
    /\ replayLog[1].data[1] = atDone.buffer[1]

\* C12: a Read issued while bufferRead < bufferSize returns only buffered
\* bytes, at most bufferSize - bufferRead of them, and does not read upstream;
\* a Read issued while bufferRead = bufferSize and not sniffing leaves the
\* internal buffer discarded and returns what the upstream read returned,
\* bytes and error.
C12_BufferThenSource ==
    [][ConnRead =>
        IF bufferRead < bufferSize
        THEN /\ ~ret'.up
             /\ srcPos' = srcPos
             /\ buffer' = buffer
             /\ Len(ret'.data) <= bufferSize - bufferRead
             /\ ret'.data = SubSeq(buffer, bufferRead + 1, bufferRead + Len(ret'.data))
             /\ bufferRead' = bufferRead + Len(ret'.data)
        ELSE ~sniffing =>
             /\ bufferRead = bufferSize
             /\ buffer' = <<>>
             /\ ~bufferCap'
             /\ ret'.up
             /\ ret'.data = SourceBytes(srcPos, srcPos' - srcPos)
             /\ ret'.err = ret'.srcErr
    ]_vars

\* C12 witness: a replay read served from the buffer alone, then a read that
\* found the replay drained, released the buffer and returned upstream's
\* bytes with upstream's error
C12_Witness ==
    /\ phase = "replay"
    /\ Len(replayLog) = 2
    /\ ~replayLog[1].up /\ replayLog[1].data = atDone.buffer
    /\ atDone.lastErr = "nil"
    /\ ret = replayLog[2]
    /\ ret.up /\ ret.data # <<>> /\ ret.err = "ErrTimeout"
    /\ buffer = <<>> /\ ~bufferCap

\* C13: the internal buffer grows only in a Read made while sniffing, by
\* exactly the bytes that Read got from upstream and returned; a Read made
\* while not sniffing never appends (it can only empty the buffer); lastErr
\* changes only in a sniffing Read that got at least one byte from upstream,
\* to the error of that upstream read.
C13_MirrorOnlyWhileSniffing ==
    [][ /\ buffer' # buffer =>
            /\ ret'.req > 0
            /\ IF sniffing
               THEN /\ ret'.up
                    /\ ret'.data = SourceBytes(srcPos, srcPos' - srcPos)
                    /\ buffer' = buffer \o ret'.data
               ELSE buffer' = <<>>
        /\ ret'.req > 0 /\ sniffing /\ ret'.up => buffer' = buffer \o ret'.data
        /\ lastErr' # lastErr =>
            /\ ret'.req > 0 /\ sniffing /\ ret'.up
            /\ ret'.data # <<>>
            /\ lastErr' = ret'.srcErr
        /\ ret'.req > 0 /\ sniffing /\ ret'.up /\ ret'.data # <<>> =>
            lastErr' = ret'.srcErr
    ]_vars

\* C13 witness: a sniffing Read appended the byte it returned to a non-empty
\* buffer and recorded the error that came with it
C13_Witness ==
    /\ sniffing
    /\ ret.up /\ ret.data # <<>> /\ ret.err = "ErrTimeout"
    /\ Len(buffer) > Len(ret.data)
    /\ SubSeq(buffer, Len(buffer) - Len(ret.data) + 1, Len(buffer)) = ret.data
    /\ lastErr = "ErrTimeout"

\* C14 as stated: while sniffing, every Read is served by upstream and its
\* bytes are appended to the internal buffer, whose length never decreases.
C14_SniffingReadsUpstream ==
    [][ /\ ConnRead /\ sniffing => ret'.up /\ buffer' = buffer \o ret'.data
        /\ sniffing /\ sniffing' => Len(buffer') >= Len(buffer)
    ]_vars

\* C14 amended: reset(true) puts the replay ceiling at the buffer's length and
\* the cursor at zero; while sniffing, a Read issued with the cursor below the
\* ceiling returns min(len(p), ceiling - cursor) buffered bytes, reads nothing
\* from upstream and appends nothing; a Read issued with the cursor at the
\* ceiling is served by upstream and its bytes are appended; the buffer keeps
\* its content and never shrinks while sniffing.
C14_SniffingReadsBufferFirst ==
    [][ /\ startSniffing =>
            /\ bufferRead' = 0
            /\ bufferSize' = Len(buffer)
            /\ buffer' = buffer
        /\ ConnRead /\ sniffing =>
            IF bufferRead < bufferSize
            THEN /\ ~ret'.up
                 /\ srcPos' = srcPos
                 /\ buffer' = buffer
                 /\ Len(ret'.data) = Min(ret'.req, bufferSize - bufferRead)
                 /\ ret'.data = SubSeq(buffer, bufferRead + 1,
                                       bufferRead + Len(ret'.data))
            ELSE /\ ret'.up
                 /\ buffer' = buffer \o ret'.data
        /\ sniffing /\ sniffing' => IsPrefix(buffer, buffer')
    ]_vars

\* C14 witness: sniffing restarted on a non-empty buffer; the first Read
\* returned buffered bytes, the second pulled a byte from upstream, and the
\* buffer grew by that byte only
C14_Witness ==
    /\ phase = "sniff" /\ sniffing
    /\ startLen > 0
    /\ Len(sniffLog) = 2
    /\ ~sniffLog[1].up /\ sniffLog[1].data # <<>>
    /\ sniffLog[2].up /\ sniffLog[2].data # <<>>
    /\ Len(buffer) = startLen + Len(sniffLog[2].data)

\* C18: 0 <= bufferRead <= bufferSize always, and bufferSize <= buffer.Len()
\* whenever bufferRead < bufferSize, so that the slice
\* s.buffer.Bytes()[s.bufferRead:s.bufferSize] taken by Read is within bounds.
C18_SliceInBounds ==
    /\ 0 <= bufferRead
    /\ bufferRead <= bufferSize
    /\ bufferRead < bufferSize => bufferSize <= Len(buffer)

\* C18 witness: a Read found the replay drained and discarded the buffer;
\* bufferSize still holds the length the buffer had
C18_Witness ==
    /\ ~sniffing
    /\ ret.up
    /\ buffer = <<>> /\ ~bufferCap
    /\ bufferSize > 0
    /\ bufferRead = bufferSize

(* ------------------------------ listener ------------------------------ *)
\* connections that arrive on the bound listener
MaxConns == 2
\* invocations of Serve on one Listener
MaxServes == 2
\* ServeAsync registrations
MaxFacades == 2
\* connections handed to a facade's queue
MaxQueued == 2

\* New: bufferSize, the capacity of a facade's connections channel
QueueCap == 1024

ServeIds == 1..MaxServes
ConnIds == 1..MaxConns
FacadeIds == 1..MaxFacades

\* errors of m.root.Accept(): a temporary net.Error, the net.Error of a closed
\* listener, another non-temporary net.Error, and an error that is no net.Error
AcceptErrs == {"ErrTemp", "ErrClosed", "ErrFatal", "ErrOther"}

\* ErrNotMatched is declared outside listener.go
ErrNotMatchedIsNetError == TRUE

ErrNotMatchedTemporary == TRUE

\* errListenerClosed.Temporary()
ErrListenerClosedTemporary == FALSE

\* errListenerClosed.Timeout()
ErrListenerClosedTimeout == FALSE

\* err.(net.Error)
IsNetError(e) ==
    \/ e \in {"ErrTemp", "ErrClosed", "ErrFatal", "ErrListenerClosed"}
    \/ e = "ErrNotMatched" /\ ErrNotMatchedIsNetError

Temporary_all(e) == TRUE

\* ne.Temporary()
Temporary(e) ==
    \/ e = "ErrTemp"
    \/ e = "ErrNotMatched" /\ ErrNotMatchedTemporary
    \/ e = "ErrListenerClosed" /\ ErrListenerClosedTemporary

\* the answers m.errorHandler can give: the handler installed by New always
\* answers true, one installed by HandleError is any func(error) bool
PolicyAnswers == IF policy = "default" THEN {TRUE} ELSE BOOLEAN

handleErr_policyOnly(e, ans) == ans

handleErr_ignorePolicy(e, ans) == IsNetError(e) /\ Temporary(e)

\* Listener.handleErr(err), ans being m.errorHandler(err)
handleErr(e, ans) ==
    IF ~ans THEN FALSE
    ELSE IF IsNetError(e) THEN Temporary(e)
    ELSE FALSE

NoTask == [pc |-> "none", owner |-> 0, connClosed |-> FALSE, ans |-> TRUE,
           closedRoot |-> FALSE]

NoHandled == [called |-> FALSE, err |-> "none", ans |-> TRUE]

NoClose == [called |-> FALSE, pc |-> "idle", err |-> "none"]

NoAccept == [called |-> FALSE, conn |-> 0, err |-> "nil", wasClosed |-> FALSE,
             wasEmpty |-> FALSE, head |-> 0]

NoFacade == [pc |-> "none", queue |-> <<>>, closed |-> FALSE, sent |-> 0,
             got |-> NoAccept, calledClose |-> FALSE]

ListenerInit ==
    /\ rootClosed = FALSE
    /\ closing = "open"
    /\ crashed = FALSE
    /\ policy = "default"
    /\ servePc = [s \in ServeIds |-> "idle"]
    /\ serveErr = [s \in ServeIds |-> "none"]
    /\ serveConn = [s \in ServeIds |-> 0]
    /\ serveRet = [s \in ServeIds |-> "none"]
    /\ wg = [s \in ServeIds |-> 0]
    /\ tasks = [c \in ConnIds |-> NoTask]
    /\ nextConn = 0
    /\ facades = [f \in FacadeIds |-> NoFacade]
    /\ handled = [s \in ServeIds |-> NoHandled]
    /\ closeAt = [s \in ServeIds |-> NoClose]

\* a call of Serve: var wg sync.WaitGroup, the defer, entry into the loop
ServeCall(s) ==
    /\ ~crashed
    /\ servePc[s] = "idle"
    /\ servePc' = [servePc EXCEPT ![s] = "accept"]
    /\ wg' = [wg EXCEPT ![s] = 0]
    /\ UNCHANGED <<rootClosed, closing, crashed, policy, serveErr, serveConn,
                   serveRet, tasks, nextConn, facades, handled, closeAt, snifVars>>

WgAdd_late(n) == n

\* the counter after wg.Add(1)
WgAdd(n) == n + 1

\* c, err := m.root.Accept() with err == nil, then wg.Add(1)
ServeAcceptOK(s) ==
    /\ ~crashed
    /\ servePc[s] = "accept"
    /\ ~rootClosed
    /\ nextConn < MaxConns
    /\ nextConn' = nextConn + 1
    /\ serveConn' = [serveConn EXCEPT ![s] = nextConn + 1]
    /\ wg' = [wg EXCEPT ![s] = WgAdd(@)]
    /\ servePc' = [servePc EXCEPT ![s] = "spawn"]
    /\ UNCHANGED <<rootClosed, closing, crashed, policy, serveErr, serveRet,
                   tasks, facades, handled, closeAt, snifVars>>

\* go m.serve(c, m.closing, &wg), back to the head of the loop
ServeSpawn(s) ==
    /\ ~crashed
    /\ servePc[s] = "spawn"
    /\ tasks' = [tasks EXCEPT ![serveConn[s]] =
                    [NoTask EXCEPT !.pc = "closeConn", !.owner = s]]
    /\ serveConn' = [serveConn EXCEPT ![s] = 0]
    /\ servePc' = [servePc EXCEPT ![s] = "accept"]
    /\ UNCHANGED <<rootClosed, closing, crashed, policy, serveErr, serveRet,
                   wg, nextConn, facades, handled, closeAt, snifVars>>

AcceptFailures_any == AcceptErrs

\* the errors m.root.Accept() can return in the current state
AcceptFailures ==
    IF rootClosed THEN {"ErrClosed"} ELSE {"ErrTemp", "ErrFatal", "ErrOther"}

\* c, err := m.root.Accept() with err != nil
ServeAcceptErr(s) ==
    /\ ~crashed
    /\ servePc[s] = "accept"
    /\ \E e \in AcceptFailures :
        serveErr' = [serveErr EXCEPT ![s] = e]
    /\ servePc' = [servePc EXCEPT ![s] = "gotErr"]
    /\ UNCHANGED <<rootClosed, closing, crashed, policy, serveConn, serveRet,
                   wg, tasks, nextConn, facades, handled, closeAt, snifVars>>

\* position of Serve after "if !m.handleErr(err) { return err }; continue"
AfterHandleErr(cont) == IF cont THEN "accept" ELSE "deferClose"

\* the value the return statement of Serve hands to the caller
ReturnValue(e) == e

\* if !m.handleErr(err) { return err }; continue
ServeHandleErr(s) ==
    /\ ~crashed
    /\ servePc[s] = "gotErr"
    /\ \E ans \in PolicyAnswers :
        LET cont == handleErr(serveErr[s], ans) IN
        /\ handled' = [handled EXCEPT ![s] =
                        [called |-> TRUE, err |-> serveErr[s], ans |-> ans]]
        /\ servePc' = [servePc EXCEPT ![s] = AfterHandleErr(cont)]
        /\ serveRet' = [serveRet EXCEPT ![s] =
                            IF AfterHandleErr(cont) = "accept" THEN @
                            ELSE ReturnValue(serveErr[s])]
    /\ serveErr' = [serveErr EXCEPT ![s] = "none"]
    /\ UNCHANGED <<rootClosed, closing, crashed, policy, serveConn, wg, tasks,
                   nextConn, facades, closeAt, snifVars>>

\* the deferred function: close(m.closing); closing a closed channel panics
ServeDeferClose(s) ==
    /\ ~crashed
    /\ servePc[s] = "deferClose"
    /\ IF closing = "closed"
       THEN /\ crashed' = TRUE
            /\ servePc' = [servePc EXCEPT ![s] = "panicked"]
            /\ closing' = closing
       ELSE /\ closing' = "closed"
            /\ servePc' = [servePc EXCEPT ![s] = "wait"]
            /\ crashed' = crashed
    /\ UNCHANGED <<rootClosed, policy, serveErr, serveConn, serveRet, wg, tasks,
                   nextConn, facades, handled, closeAt, snifVars>>

WaitDone_skip(s) == TRUE

\* whether wg.Wait() returns
WaitDone(s) == wg[s] = 0

\* the deferred function: wg.Wait(), then Serve returns to its caller
ServeWait(s) ==
    /\ ~crashed
    /\ servePc[s] = "wait"
    /\ WaitDone(s)
    /\ servePc' = [servePc EXCEPT ![s] = "returned"]
    /\ UNCHANGED <<rootClosed, closing, crashed, policy, serveErr, serveConn,
                   serveRet, wg, tasks, nextConn, facades, handled, closeAt,
                   snifVars>>

Serve(s) ==
    \/ ServeCall(s)
    \/ ServeAcceptOK(s)
    \/ ServeSpawn(s)
    \/ ServeAcceptErr(s)
    \/ ServeHandleErr(s)
    \/ ServeDeferClose(s)
    \/ ServeWait(s)

\* serve: _ = c.Close()
TaskCloseConn(c) ==
    /\ ~crashed
    /\ tasks[c].pc = "closeConn"
    /\ tasks' = [tasks EXCEPT ![c].pc = "report", ![c].connClosed = TRUE]
    /\ UNCHANGED <<rootClosed, closing, crashed, policy, servePc, serveErr,
                   serveConn, serveRet, wg, nextConn, facades, handled, closeAt,
                   snifVars>>

AfterReport_always(cont) == "rootClose"

\* position of serve after "if !m.handleErr(err)"
AfterReport(cont) == IF cont THEN "exit" ELSE "rootClose"

\* serve: err := ErrNotMatched{c: c}; if !m.handleErr(err)
TaskReport(c) ==
    /\ ~crashed
    /\ tasks[c].pc = "report"
    /\ \E ans \in PolicyAnswers :
        tasks' = [tasks EXCEPT ![c].pc = AfterReport(handleErr("ErrNotMatched", ans)),
                               ![c].ans = ans]
    /\ UNCHANGED <<rootClosed, closing, crashed, policy, servePc, serveErr,
                   serveConn, serveRet, wg, nextConn, facades, handled, closeAt,
                   snifVars>>

\* serve: _ = m.root.Close()
TaskRootClose(c) ==
    /\ ~crashed
    /\ tasks[c].pc = "rootClose"
    /\ rootClosed' = TRUE
    /\ tasks' = [tasks EXCEPT ![c].pc = "exit", ![c].closedRoot = TRUE]
    /\ UNCHANGED <<closing, crashed, policy, servePc, serveErr, serveConn,
                   serveRet, wg, nextConn, facades, handled, closeAt, snifVars>>

\* serve: defer wg.Done()
TaskDone(c) ==
    /\ ~crashed
    /\ tasks[c].pc = "exit"
    /\ wg' = [wg EXCEPT ![tasks[c].owner] = @ - 1]
    /\ tasks' = [tasks EXCEPT ![c].pc = "done"]
    /\ UNCHANGED <<rootClosed, closing, crashed, policy, servePc, serveErr,
                   serveConn, serveRet, nextConn, facades, handled, closeAt,
                   snifVars>>

serve(c) ==
    \/ TaskCloseConn(c)
    \/ TaskReport(c)
    \/ TaskRootClose(c)
    \/ TaskDone(c)

\* Listener.Close
Close ==
    /\ ~crashed
    /\ rootClosed' = TRUE
    /\ closeAt' = [s \in ServeIds |->
                    IF ~closeAt[s].called
                    THEN [called |-> TRUE, pc |-> servePc[s],
                          err |-> IF servePc[s] = "gotErr" THEN serveErr[s]
                                  ELSE serveRet[s]]
                    ELSE closeAt[s]]
    /\ UNCHANGED <<closing, crashed, policy, servePc, serveErr, serveConn,
                   serveRet, wg, tasks, nextConn, facades, handled, snifVars>>

\* Listener.Accept called by any goroutine: return m.root.Accept(); the caller
\* gets the next connection, for which no task is spawned (a call that
\* returns an error changes nothing)
ListenerAccept ==
    /\ ~crashed
    /\ ~rootClosed
    /\ nextConn < MaxConns
    /\ nextConn' = nextConn + 1
    /\ tasks' = [tasks EXCEPT ![nextConn + 1] = [NoTask EXCEPT !.pc = "external"]]
    /\ UNCHANGED <<rootClosed, closing, crashed, policy, servePc, serveErr,
                   serveConn, serveRet, wg, facades, handled, closeAt, snifVars>>

\* Listener.HandleError(h): h is any func(error) bool, also one that always
\* answers true, so a later HandleError adds no behaviour
HandleError ==
    /\ ~crashed
    /\ policy = "default"
    /\ policy' = "custom"
    /\ UNCHANGED <<rootClosed, closing, crashed, servePc, serveErr, serveConn,
                   serveRet, wg, tasks, nextConn, facades, handled, closeAt,
                   snifVars>>

\* Listener.ServeAsync(serve): the muxListener and the goroutine go serve(ml)
ServeAsync(f) ==
    /\ ~crashed
    /\ facades[f].pc = "none"
    /\ \A g \in FacadeIds : g < f => facades[g].pc # "none"
    /\ facades' = [facades EXCEPT ![f] = [NoFacade EXCEPT !.pc = "running"]]
    /\ UNCHANGED <<rootClosed, closing, crashed, policy, servePc, serveErr,
                   serveConn, serveRet, wg, tasks, nextConn, handled, closeAt,
                   snifVars>>

\* the server goroutine calls Accept on its muxListener: c, ok := <-l.connections
AcceptCall(f) ==
    /\ ~crashed
    /\ facades[f].pc = "running"
    /\ facades' = [facades EXCEPT ![f].pc = "inAccept"]
    /\ UNCHANGED <<rootClosed, closing, crashed, policy, servePc, serveErr,
                   serveConn, serveRet, wg, tasks, nextConn, handled, closeAt,
                   snifVars>>

\* c, ok := <-l.connections on a channel holding q: the head of q, or the zero
\* value and ok = false once the channel is closed and empty
Receive(q) ==
    IF q # <<>> THEN [c |-> Head(q), ok |-> TRUE] ELSE [c |-> 0, ok |-> FALSE]

\* whether the receive from l.connections can complete
CanReceive(q, closed) == q # <<>> \/ closed

AcceptResult_unchecked(c, ok) == [conn |-> c, err |-> "nil"]

\* muxListener.Accept: if !ok { return nil, ErrListenerClosed }; return c, nil
AcceptResult(c, ok) ==
    IF ~ok THEN [conn |-> 0, err |-> "ErrListenerClosed"]
    ELSE [conn |-> c, err |-> "nil"]

\* muxListener.Accept returns to the server goroutine
Accept(f) ==
    /\ ~crashed
    /\ facades[f].pc = "inAccept"
    /\ CanReceive(facades[f].queue, facades[f].closed)
    /\ LET q == facades[f].queue
           r == Receive(q)
           res == AcceptResult(r.c, r.ok)
       IN facades' = [facades EXCEPT
                ![f].pc = "running",
                ![f].queue = IF q # <<>> THEN Tail(q) ELSE q,
                ![f].got = [called |-> TRUE, conn |-> res.conn, err |-> res.err,
                            wasClosed |-> facades[f].closed, wasEmpty |-> q = <<>>,
                            head |-> IF q # <<>> THEN Head(q) ELSE 0]]
    /\ UNCHANGED <<rootClosed, closing, crashed, policy, servePc, serveErr,
                   serveConn, serveRet, wg, tasks, nextConn, handled, closeAt,
                   snifVars>>

Delegate_own(op) == "connections"

\* what a method call on a muxListener acts on: Accept is defined on the
\* connections channel, every other method is promoted from the embedded
\* net.Listener, which ServeAsync sets to m.root
Delegate(op) == IF op = "Accept" THEN "connections" ELSE "root"

\* the downstream server calls Close() on its muxListener
FacadeClose(f) ==
    /\ ~crashed
    /\ facades[f].pc # "none"
    /\ ~facades[f].calledClose
    /\ rootClosed' = (rootClosed \/ Delegate("Close") = "root")
    /\ facades' = [facades EXCEPT
            ![f].calledClose = TRUE,
            ![f].closed = (@ \/ Delegate("Close") = "connections")]
    /\ UNCHANGED <<closing, crashed, policy, servePc, serveErr, serveConn,
                   serveRet, wg, tasks, nextConn, handled, closeAt, snifVars>>

\* a connection is handed to the facade: l.connections <- c
QueueSend(f) ==
    /\ ~crashed
    /\ facades[f].pc # "none"
    /\ ~facades[f].closed
    /\ Len(facades[f].queue) < QueueCap
    /\ facades[f].sent < MaxQueued
    /\ facades' = [facades EXCEPT ![f].queue = Append(@, facades[f].sent + 1),
                                  ![f].sent = @ + 1]
    /\ UNCHANGED <<rootClosed, closing, crashed, policy, servePc, serveErr,
                   serveConn, serveRet, wg, tasks, nextConn, handled, closeAt,
                   snifVars>>

\* the facade's queue is closed: close(l.connections)
QueueClose(f) ==
    /\ ~crashed
    /\ facades[f].pc # "none"
    /\ ~facades[f].closed
    /\ facades' = [facades EXCEPT ![f].closed = TRUE]
    /\ UNCHANGED <<rootClosed, closing, crashed, policy, servePc, serveErr,
                   serveConn, serveRet, wg, tasks, nextConn, handled, closeAt,
                   snifVars>>

Init == SnifferInit /\ ListenerInit

\* the accept loop, its tasks, and the calls that act on them
ServeNext ==
    \/ ServeCall(1)
    \/ \E s \in ServeIds : ServeAcceptOK(s) \/ ServeSpawn(s) \/ ServeAcceptErr(s)
                            \/ ServeHandleErr(s) \/ ServeDeferClose(s) \/ ServeWait(s)
    \/ \E c \in ConnIds : serve(c)
    \/ Close
    \/ HandleError

Next ==
    \/ ServeNext
    \/ \E f \in FacadeIds : ServeAsync(f) \/ AcceptCall(f)

Spec == Init /\ [][Next]_vars

\* the steps of Serve that the Go scheduler runs without waiting for the
\* network: everything but an Accept on an open listener
ServeProgress(s) ==
    \/ ServeSpawn(s)
    \/ rootClosed /\ ServeAcceptErr(s)
    \/ ServeHandleErr(s)
    \/ ServeDeferClose(s)
    \/ ServeWait(s)

\* the accept loop with every started goroutine scheduled; the facades, which
\* no step of Serve or of its tasks reads or writes, stay as constructed
FairSpec ==
    /\ Init /\ [][ServeNext]_vars
    /\ \A s \in ServeIds : WF_vars(ServeProgress(s))
    /\ \A c \in ConnIds : WF_vars(serve(c))

\* as ServeNext, with Serve callable again on the same Listener, while an
\* earlier invocation runs or after it returned
ServeAgainNext ==
    \/ \E s \in ServeIds :
        /\ \A r \in ServeIds : r < s => servePc[r] # "idle"
        /\ ServeCall(s)
    \/ \E s \in ServeIds : ServeAcceptOK(s) \/ ServeSpawn(s) \/ ServeAcceptErr(s)
                            \/ ServeHandleErr(s) \/ ServeDeferClose(s) \/ ServeWait(s)
    \/ \E c \in ConnIds : serve(c)
    \/ Close
    \/ HandleError

ServeAgainSpec == Init /\ [][ServeAgainNext]_vars

\* as ServeNext, with the public Accept of the Listener called from outside
AcceptNext == ServeNext \/ ListenerAccept

AcceptSpec == Init /\ [][AcceptNext]_vars

\* the accept loop and a downstream server that closes its facade; the
\* Listener's own Close() is not called
FacadeCloseNext ==
    \/ ServeCall(1)
    \/ \E s \in ServeIds : ServeAcceptOK(s) \/ ServeSpawn(s) \/ ServeAcceptErr(s)
                            \/ ServeHandleErr(s) \/ ServeDeferClose(s) \/ ServeWait(s)
    \/ \E c \in ConnIds : serve(c)
    \/ HandleError
    \/ ServeAsync(1)
    \/ FacadeClose(1)

FacadeCloseSpec ==
    /\ Init /\ [][FacadeCloseNext]_vars
    /\ \A s \in ServeIds : WF_vars(ServeProgress(s))
    /\ \A c \in ConnIds : WF_vars(serve(c))

FacadeNext ==
    \E f \in FacadeIds :
        ServeAsync(f) \/ AcceptCall(f) \/ Accept(f) \/ QueueSend(f) \/ QueueClose(f)

FacadeSpec == Init /\ [][FacadeNext]_vars

(* ------------------------ listener: properties ------------------------ *)
\* positions of an invocation of Serve that has been called and not returned
RunningPcs == {"accept", "spawn", "gotErr", "deferClose", "wait"}

\* positions of Serve in its loop with no failed accept to handle
LoopPcs == {"accept", "spawn"}

\* C4: in every state where Serve has returned, the shutdown signal is closed,
\* the completion counter is zero and every per-connection task the
\* invocation spawned has finished.
C4_ReturnedAfterTasks ==
    \A s \in ServeIds :
        servePc[s] = "returned" =>
            /\ closing = "closed"
            /\ wg[s] = 0
            /\ \A c \in ConnIds : tasks[c].owner = s => tasks[c].pc = "done"

\* C4 witness: Serve has returned after spawning a task for every connection
C4_Witness ==
    /\ servePc[1] = "returned"
    /\ \A c \in ConnIds : tasks[c].owner = 1 /\ tasks[c].pc = "done"

\* C5 as stated (its result): when Close() was called while Serve was running,
\* the value Serve returns is the error of the accept call on the closed listener.
C5_ReturnsCloseError ==
    \A s \in ServeIds :
        /\ closeAt[s].called
        /\ closeAt[s].pc \in RunningPcs
        /\ servePc[s] = "returned"
        => serveRet[s] = "ErrClosed"

\* C5 amended: when Close() is called while Serve is running, Serve eventually
\* returns (goroutines being scheduled fairly); it returns the error of the
\* accept call on the closed listener whenever Close() found it in its accept
\* loop with no failed accept pending, whatever the policy answers, and
\* otherwise that error or the accept error it was handling at that moment.
C5_CloseEndsServe ==
    \A s \in ServeIds :
        /\ [](closeAt[s].called /\ closeAt[s].pc \in RunningPcs
                => <>(servePc[s] = "returned"))
        /\ [](closeAt[s].called /\ servePc[s] = "returned" =>
                /\ closeAt[s].pc \in LoopPcs => serveRet[s] = "ErrClosed"
                /\ closeAt[s].pc \in RunningPcs =>
                        serveRet[s] \in {"ErrClosed", closeAt[s].err})

\* C5 witness: Close() found Serve in its loop, the policy answered "continue"
\* for the error of the closed listener, and Serve returned that error
C5_Witness ==
    /\ closeAt[1].called
    /\ closeAt[1].pc = "accept"
    /\ servePc[1] = "returned"
    /\ serveRet[1] = "ErrClosed"
    /\ handled[1] = [called |-> TRUE, err |-> "ErrClosed", ans |-> TRUE]

\* C6: once the policy has answered "stop" for the error e of a failed accept,
\* Serve is on its way out (it calls Accept no more) and the value of its return
\* statement is e itself.
C6_StopReturnsThatError ==
    \A s \in ServeIds :
        handled[s].called /\ ~handled[s].ans =>
            /\ servePc[s] \in {"deferClose", "wait", "returned", "panicked"}
            /\ serveRet[s] = handled[s].err

\* C6 witness: the policy stopped Serve on a temporary error, which it returned
C6_Witness ==
    /\ handled[1] = [called |-> TRUE, err |-> "ErrTemp", ans |-> FALSE]
    /\ servePc[1] = "returned"
    /\ serveRet[1] = "ErrTemp"

\* C7: after a failed accept with error e, Serve is back in its loop iff the
\* policy answered "continue" and e is a temporary transport error; in every
\* other case Serve is on its way out with e as its return value.
C7_ContinueIffTemporary ==
    \A s \in ServeIds :
        handled[s].called =>
            LET cont == handled[s].ans /\ handled[s].err = "ErrTemp" IN
            /\ cont <=> servePc[s] \in {"accept", "spawn", "gotErr"}
            /\ ~cont => /\ servePc[s] \in {"deferClose", "wait", "returned", "panicked"}
                        /\ serveRet[s] = handled[s].err

\* C7 witness: the policy answered "continue" for an error that is not a
\* temporary transport error, and Serve returned it
C7_Witness ==
    /\ handled[1].called /\ handled[1].ans
    /\ handled[1].err \in {"ErrFatal", "ErrOther"}
    /\ servePc[1] = "returned"
    /\ serveRet[1] = handled[1].err

\* C8: an Accept of the facade that completes returns the connection at the
\* head of the queue with a nil error while the queue holds one, and
\* (nil, ErrListenerClosed) exactly when the queue is closed and empty; it is
\* blocked while the queue is open and empty; ErrListenerClosed is neither
\* temporary nor a timeout.
C8_FacadeAccept ==
    /\ ~Temporary("ErrListenerClosed")
    /\ ~ErrListenerClosedTimeout
    /\ \A f \in FacadeIds :
        LET g == facades[f].got IN
        /\ g.called =>
            /\ g.wasClosed /\ g.wasEmpty => g.conn = 0 /\ g.err = "ErrListenerClosed"
            /\ ~g.wasEmpty => g.conn = g.head /\ g.conn # 0 /\ g.err = "nil"
            /\ g.err = "ErrListenerClosed" => g.wasClosed /\ g.wasEmpty
        /\ facades[f].pc = "inAccept" =>
            (ENABLED Accept(f) <=> facades[f].closed \/ facades[f].queue # <<>>)

\* C8 witness: connections were queued, the queue was closed and emptied, and
\* the server's latest Accept returned ErrListenerClosed
C8_Witness ==
    \E f \in FacadeIds :
        /\ facades[f].got.called
        /\ facades[f].got.err = "ErrListenerClosed"
        /\ facades[f].sent > 0
        /\ facades[f].queue = <<>>

\* C9 as stated (its safety part): once Close() has been called or Serve has
\* returned, the queue of every facade created by ServeAsync is closed.
C9_QueuesClosedWithListener ==
    (rootClosed \/ \E s \in ServeIds : servePc[s] = "returned") =>
        \A f \in FacadeIds : facades[f].pc # "none" => facades[f].closed

\* C10: a per-connection task has closed its connection before it reports
\* "not matched"; it closes the bound listener iff the policy rejected
\* continuation; with the default policy no task closes the bound listener,
\* which then is closed only by a call of Close().
C10_TaskClosesRootIffRejected ==
    /\ \A c \in ConnIds :
        LET t == tasks[c] IN
        /\ t.pc \in {"report", "rootClose", "exit", "done"} => t.connClosed
        /\ t.pc = "closeConn" => ~t.connClosed
        /\ t.pc = "rootClose" => ~t.ans /\ ~t.closedRoot
        /\ t.pc \in {"exit", "done"} => (t.closedRoot <=> ~t.ans)
        /\ t.closedRoot => rootClosed
    /\ policy = "default" =>
        /\ \A c \in ConnIds : tasks[c].pc # "rootClose" /\ ~tasks[c].closedRoot
        /\ rootClosed => closeAt[1].called

\* C10 witness: one task was rejected by the policy and closed the bound
\* listener, another was allowed to continue and did not
C10_Witness ==
    \E c, d \in ConnIds :
        /\ tasks[c].pc = "done" /\ ~tasks[c].ans /\ tasks[c].closedRoot
        /\ tasks[d].pc = "done" /\ tasks[d].ans /\ ~tasks[d].closedRoot

SnifferNext == startSniffing \/ doneSniffing \/ ConnRead

SnifferSpec == Init /\ [][SnifferNext]_vars

\* C15 as stated: the shutdown signal is closed once; no invocation of Serve
\* executes close(m.closing) on the channel another invocation has closed.
C15_ClosingClosedOnce ==
    /\ ~crashed
    /\ \A s \in ServeIds : servePc[s] # "panicked"

\* per-connection tasks that have decided to call m.root.Close() and have not
\* returned from it
RootClosers == {c \in ConnIds : tasks[c].pc = "rootClose"}

Spawned(s) == {c \in ConnIds : tasks[c].owner = s}

\* the tasks of invocation s that have not executed wg.Done()
Unfinished(s) == {c \in Spawned(s) : tasks[c].pc # "done"}

\* the connection invocation s has accepted and not yet handed to its task
InHand(s) == IF servePc[s] = "spawn" THEN {serveConn[s]} ELSE {}

\* C19: every connection accepted by Serve is handed to exactly one task; the
\* completion counter equals the number of tasks not yet exited, the task of
\* the connection just accepted counted from wg.Add(1) on, before it starts,
\* and is never negative; when Serve has returned every connection it
\* accepted has been closed.
C19_OneTaskPerConnection ==
    /\ \A c \in ConnIds :
        c <= nextConn <=>
            Cardinality({s \in ServeIds : c \in Spawned(s) \cup InHand(s)}) = 1
    /\ \A c \in ConnIds : c > nextConn => tasks[c] = NoTask
    /\ \A s \in ServeIds :
        /\ Spawned(s) \cap InHand(s) = {}
        /\ wg[s] = Cardinality(Unfinished(s)) + Cardinality(InHand(s))
        /\ wg[s] >= 0
        /\ servePc[s] = "returned" =>
            /\ InHand(s) = {}
            /\ \A c \in Spawned(s) : tasks[c].connClosed

\* C19 witness: Serve waits for two tasks, one of which has closed its
\* connection and is about to exit
C19_Witness ==
    /\ servePc[1] = "wait"
    /\ wg[1] = 2
    /\ \E c \in Spawned(1) : tasks[c].pc = "exit" /\ tasks[c].connClosed
    /\ \E c \in Spawned(1) : tasks[c].pc = "closeConn"

====
